---- MODULE Spec2Model ----
(***************************************************************************)
(* Dimension-specialised rotation matrices (2D and 3D) of                  *)
(* src/geometry/rotation_specialization.rs.                                *)
(*                                                                         *)
(* The scalar type N: Real is modelled by exact arithmetic:                *)
(*   - a scalar is a reduced fraction <<n, d>>, d > 0; <<0, 0>> is NaN     *)
(*     (the value of 0/0, which normalize() of the zero vector produces);  *)
(*   - an angle (a scalar that is fed to sin_cos, or comes out of acos /   *)
(*     atan2) is <<q, a>>: q quarter turns plus a times ALPHA, where       *)
(*     ALPHA = atan2(3, 4) (cos = 4/5, sin = 3/5, about 36.87 degrees).    *)
(*     sin_cos of an angle with integer q and a is a fraction, computed    *)
(*     by the angle-addition formulas; acos and atan2 return the           *)
(*     principal value, as the library functions do.                       *)
(* Inputs whose square root, sine or arc cosine is not such a number are   *)
(* outside the model: the actions guard on them (Representable...).        *)
(***************************************************************************)
EXTENDS Integers, Sequences, FiniteSets, TLC

(***************************************************************************)
(* Bounds of the model.                                                    *)
(***************************************************************************)
\* input angles range over q quarter turns, |q| <= MaxTurns
MaxTurns == 3
\* ... plus a times ALPHA, |a| <= MaxAlpha
MaxAlpha == 1

(***************************************************************************)
(* Scalars: exact fractions with NaN.                                      *)
(***************************************************************************)
RECURSIVE GCD(_, _)
GCD(a, b) == IF b = 0 THEN a ELSE GCD(b, a % b)

Abs(i) == IF i < 0 THEN -i ELSE i

NaN == <<0, 0>>

IsNaN(x) == x[2] = 0

\* the fraction n/d, d # 0, reduced
Frac(n, d) ==
    LET g == GCD(Abs(n), Abs(d))
        s == IF d < 0 THEN -1 ELSE 1
    IN  <<s * (n \div g), s * (d \div g)>>

Whole(i) == <<i, 1>>

Zero == <<0, 1>>

One == <<1, 1>>

RNeg(x) == <<-x[1], x[2]>>

RAdd(x, y) ==
    IF IsNaN(x) \/ IsNaN(y) THEN NaN
    ELSE LET g == GCD(x[2], y[2])
             l == (x[2] \div g) * y[2]
         IN  Frac(x[1] * (l \div x[2]) + y[1] * (l \div y[2]), l)

RSub(x, y) == RAdd(x, RNeg(y))

RMul(x, y) ==
    IF IsNaN(x) \/ IsNaN(y) THEN NaN
    ELSE IF x[1] = 0 \/ y[1] = 0 THEN Zero
    ELSE LET g1 == GCD(Abs(x[1]), y[2])
             g2 == GCD(Abs(y[1]), x[2])
         IN  <<(x[1] \div g1) * (y[1] \div g2), (x[2] \div g2) * (y[2] \div g1)>>

\* x / y; 0/0 is NaN.  A non-zero x is never divided by zero here.
RDiv(x, y) ==
    IF IsNaN(x) \/ IsNaN(y) \/ y[1] = 0 THEN NaN
    ELSE RMul(x, Frac(y[2], y[1]))

\* comparisons are false on NaN, as for floating point
RLt(x, y) == ~IsNaN(x) /\ ~IsNaN(y) /\ RSub(x, y)[1] < 0

RLe(x, y) == ~IsNaN(x) /\ ~IsNaN(y) /\ RSub(x, y)[1] <= 0

RGt(x, y) == RLt(y, x)

RAbs(x) == <<Abs(x[1]), x[2]>>

RECURSIVE ISqrtIn(_, _, _)
\* the largest r in lo..hi with r * r <= n (lo * lo <= n)
ISqrtIn(n, lo, hi) ==
    IF lo >= hi THEN lo
    ELSE LET mid == (lo + hi + 1) \div 2
         IN  IF mid <= n \div mid THEN ISqrtIn(n, mid, hi) ELSE ISqrtIn(n, lo, mid - 1)

ISqrt(n) == ISqrtIn(n, 0, n)

IsSquare(n) == n >= 0 /\ ISqrt(n) * ISqrt(n) = n

\* x has an exact square root (or is NaN, whose square root is NaN)
HasSqrt(x) == IsNaN(x) \/ (IsSquare(x[1]) /\ IsSquare(x[2]))

RSqrt(x) == IF IsNaN(x) \/ x[1] < 0 THEN NaN ELSE <<ISqrt(x[1]), ISqrt(x[2])>>

\* N::default_epsilon() of f32, 2^-23, as a test "x > epsilon" on x >= 0
\* (n/d > 1/E  iff  n > d \div E, without forming n * E)
AboveEpsilon(x) == ~IsNaN(x) /\ x[1] > x[2] \div 8388608

(***************************************************************************)
(* Angles: <<q, a>> is q quarter turns plus a * ALPHA, q and a fractions.  *)
(***************************************************************************)
AZero == <<Zero, Zero>>

Ang(q, a) == <<Whole(q), Whole(a)>>

\* angle * n
AScale(th, n) == <<RMul(th[1], n), RMul(th[2], n)>>

ANeg(th) == <<RNeg(th[1]), RNeg(th[2])>>

\* angle.is_zero()
AIsZero(th) == th = AZero

\* sin_cos is a fraction exactly for whole numbers of quarter turns and ALPHAs
AIsWhole(th) == th[1][2] = 1 /\ th[2][2] = 1

\* the angle in thousandths of a degree (ALPHA = 36.870 degrees), to order angles
AValue(th) == RAdd(RMul(th[1], Whole(90000)), RMul(th[2], Whole(36870)))

RECURSIVE CosSinAlpha(_)
\* <<cos, sin>> of m * ALPHA, m >= 0
CosSinAlpha(m) ==
    IF m = 0 THEN <<One, Zero>>
    ELSE LET p == CosSinAlpha(m - 1)
         IN  <<RSub(RMul(p[1], <<4, 5>>), RMul(p[2], <<3, 5>>)),
               RAdd(RMul(p[2], <<4, 5>>), RMul(p[1], <<3, 5>>))>>

\* <<cos, sin>> of -x from <<cos, sin>> of x, when m < 0
Mirror(m, p) == IF m < 0 THEN <<p[1], RNeg(p[2])>> ELSE p

\* <<sin, cos>> of x plus k quarter turns from p = <<cos, sin>> of x
QuarterTurns(k, p) ==
    CASE k = 0 -> <<p[2], p[1]>>
      [] k = 1 -> <<p[1], RNeg(p[2])>>
      [] k = 2 -> <<RNeg(p[2]), RNeg(p[1])>>
      [] k = 3 -> <<RNeg(p[1]), p[2]>>

\* angle.sin_cos(): <<sin, cos>>
sin_cos(th) == QuarterTurns(th[1][1] % 4, Mirror(th[2][1], CosSinAlpha(Abs(th[2][1]))))

\* the largest ALPHA coefficient of an angle the model computes
GridAlpha == MaxAlpha + 1

\* the angles of (-pi, pi], each with its <<sin, cos>>
PrincipalAngles ==
    {p \in {<<Ang(k, m), sin_cos(Ang(k, m))>> :
                k \in -(GridAlpha + 2)..(GridAlpha + 2), m \in -GridAlpha..GridAlpha} :
        /\ RLt(Whole(-180000), AValue(p[1]))
        /\ RLe(AValue(p[1]), Whole(180000))}

\* the angles of [0, pi]
AcosAngles == {p \in PrincipalAngles : RLe(Zero, AValue(p[1]))}

HasAcos(c) == \E p \in AcosAngles : p[2][2] = c

\* c.acos(): the angle in [0, pi] with cosine c
acos(c) == (CHOOSE p \in AcosAngles : p[2][2] = c)[1]

HasAtan2(y, x) == \E p \in PrincipalAngles : p[2] = <<y, x>>

\* y.atan2(x) for a point (x, y) of the unit circle: the angle in (-pi, pi]
atan2(y, x) == (CHOOSE p \in PrincipalAngles : p[2] = <<y, x>>)[1]

(***************************************************************************)
(* Vectors and square matrices over the scalars.                           *)
(***************************************************************************)
VNeg(v) == <<RNeg(v[1]), RNeg(v[2]), RNeg(v[3])>>

VDiv(v, x) == <<RDiv(v[1], x), RDiv(v[2], x), RDiv(v[3], x)>>

Dot(a, b) == RAdd(RAdd(RMul(a[1], b[1]), RMul(a[2], b[2])), RMul(a[3], b[3]))

Cross(a, b) ==
    <<RSub(RMul(a[2], b[3]), RMul(a[3], b[2])),
      RSub(RMul(a[3], b[1]), RMul(a[1], b[3])),
      RSub(RMul(a[1], b[2]), RMul(a[2], b[1]))>>

NormSquared(v) == Dot(v, v)

HasNorm(v) == HasSqrt(NormSquared(v))

Norm(v) == RSqrt(NormSquared(v))

\* v.normalize(): v / |v|, NaN in every component for the zero vector
Normalize(v) == VDiv(v, Norm(v))

None == <<>>

Some(x) == <<x>>

\* v.try_normalize(0): absent when |v| <= 0
try_normalize(v) ==
    IF RLe(Norm(v), Zero) THEN None ELSE Some(VDiv(v, Norm(v)))

\* Unit::try_new(v, default_epsilon): absent when |v| <= epsilon
Unit_try_new(v) ==
    IF AboveEpsilon(Norm(v)) THEN Some(VDiv(v, Norm(v))) ELSE None

from_diagonal_element(dim, x) ==
    IF dim = 2
    THEN <<<<x, Zero>>, <<Zero, x>>>>
    ELSE <<<<x, Zero, Zero>>, <<Zero, x, Zero>>, <<Zero, Zero, x>>>>

Identity(dim) == from_diagonal_element(dim, One)

Transpose(M) ==
    IF Len(M) = 2
    THEN <<<<M[1][1], M[2][1]>>, <<M[1][2], M[2][2]>>>>
    ELSE <<<<M[1][1], M[2][1], M[3][1]>>,
           <<M[1][2], M[2][2], M[3][2]>>,
           <<M[1][3], M[2][3], M[3][3]>>>>

\* row i of A times column j of B
RowCol(A, B, i, j) ==
    IF Len(A) = 2
    THEN RAdd(RMul(A[i][1], B[1][j]), RMul(A[i][2], B[2][j]))
    ELSE RAdd(RAdd(RMul(A[i][1], B[1][j]), RMul(A[i][2], B[2][j])), RMul(A[i][3], B[3][j]))

MMul(A, B) ==
    IF Len(A) = 2
    THEN <<<<RowCol(A, B, 1, 1), RowCol(A, B, 1, 2)>>,
           <<RowCol(A, B, 2, 1), RowCol(A, B, 2, 2)>>>>
    ELSE <<<<RowCol(A, B, 1, 1), RowCol(A, B, 1, 2), RowCol(A, B, 1, 3)>>,
           <<RowCol(A, B, 2, 1), RowCol(A, B, 2, 2), RowCol(A, B, 2, 3)>>,
           <<RowCol(A, B, 3, 1), RowCol(A, B, 3, 2), RowCol(A, B, 3, 3)>>>>

\* matrix * vector (3D)
MVec(A, v) == <<Dot(A[1], v), Dot(A[2], v), Dot(A[3], v)>>

Det(M) ==
    IF Len(M) = 2
    THEN RSub(RMul(M[1][1], M[2][2]), RMul(M[1][2], M[2][1]))
    ELSE RAdd(RSub(RMul(M[1][1], RSub(RMul(M[2][2], M[3][3]), RMul(M[2][3], M[3][2]))),
                   RMul(M[1][2], RSub(RMul(M[2][1], M[3][3]), RMul(M[2][3], M[3][1])))),
              RMul(M[1][3], RSub(RMul(M[2][1], M[3][2]), RMul(M[2][2], M[3][1]))))

\* the invariant of the rotation type: orthogonal with determinant +1
IsRotation(M) == MMul(M, Transpose(M)) = Identity(Len(M)) /\ Det(M) = One

\* self.inverse(): the transpose
inverse(R) == Transpose(R)

(***************************************************************************)
(* 2D rotations.  A rotation is its matrix, a tuple of rows; the source's  *)
(* matrix()[(i, j)] is M[i + 1][j + 1].                                    *)
(***************************************************************************)
\* Faulty variant of new: the sine terms carry the wrong signs, which gives
\* the rotation by -angle.
new2_WrongSense(angle) ==
    LET sc  == sin_cos(angle)
        sia == sc[1]
        coa == sc[2]
    IN  <<<<coa, sia>>, <<RNeg(sia), coa>>>>

\* RotationBase<N, U2, S>::new
new2(angle) ==
    LET sc  == sin_cos(angle)
        sia == sc[1]
        coa == sc[2]
    IN  <<<<coa, RNeg(sia)>>, <<sia, coa>>>>

RepAngle2(R) == HasAtan2(R[2][1], R[1][1])

\* RotationBase<N, U2, S>::angle
angle2(R) == atan2(R[2][1], R[1][1])

\* RotationBase<N, U2, S>::rotation_to
rotation_to2(self, other) == MMul(other, inverse(self))

\* RotationBase<N, U2, S>::angle_to
angle_to2(self, other) == angle2(rotation_to2(self, other))

RepPowf2(R, n) == RepAngle2(R) /\ AIsWhole(AScale(angle2(R), n))

\* RotationBase<N, U2, S>::powf
powf2(self, n) == new2(AScale(angle2(self), n))

\* RotationBase<N, U2, S>::scaled_axis: a 1-dimensional vector
scaled_axis2(self) == <<angle2(self)>>

\* RotationBase<N, U2, S>::from_scaled_axis
from_scaled_axis2(axisangle) == new2(axisangle[1])

(***************************************************************************)
(* 3D rotations.                                                           *)
(***************************************************************************)
\* Faulty variant of from_axis_angle: the entry (0, 1) adds uz * sin where the
\* source subtracts it.
from_axis_angle_SignSlip(axis, angle) ==
    IF AIsZero(angle) THEN Identity(3)
    ELSE LET ux        == axis[1]
             uy        == axis[2]
             uz        == axis[3]
             sqx       == RMul(ux, ux)
             sqy       == RMul(uy, uy)
             sqz       == RMul(uz, uz)
             sc        == sin_cos(angle)
             sin       == sc[1]
             cos       == sc[2]
             one_m_cos == RSub(One, cos)
         IN  <<<<RAdd(sqx, RMul(RSub(One, sqx), cos)),
                 RAdd(RMul(RMul(ux, uy), one_m_cos), RMul(uz, sin)),
                 RAdd(RMul(RMul(ux, uz), one_m_cos), RMul(uy, sin))>>,
               <<RAdd(RMul(RMul(ux, uy), one_m_cos), RMul(uz, sin)),
                 RAdd(sqy, RMul(RSub(One, sqy), cos)),
                 RSub(RMul(RMul(uy, uz), one_m_cos), RMul(ux, sin))>>,
               <<RSub(RMul(RMul(ux, uz), one_m_cos), RMul(uy, sin)),
                 RAdd(RMul(RMul(uy, uz), one_m_cos), RMul(ux, sin)),
                 RAdd(sqz, RMul(RSub(One, sqz), cos))>>>>

\* RotationBase<N, U3, S>::from_axis_angle
from_axis_angle(axis, angle) ==
    IF AIsZero(angle) THEN Identity(3)
    ELSE LET ux        == axis[1]
             uy        == axis[2]
             uz        == axis[3]
             sqx       == RMul(ux, ux)
             sqy       == RMul(uy, uy)
             sqz       == RMul(uz, uz)
             sc        == sin_cos(angle)
             sin       == sc[1]
             cos       == sc[2]
             one_m_cos == RSub(One, cos)
         IN  <<<<RAdd(sqx, RMul(RSub(One, sqx), cos)),
                 RSub(RMul(RMul(ux, uy), one_m_cos), RMul(uz, sin)),
                 RAdd(RMul(RMul(ux, uz), one_m_cos), RMul(uy, sin))>>,
               <<RAdd(RMul(RMul(ux, uy), one_m_cos), RMul(uz, sin)),
                 RAdd(sqy, RMul(RSub(One, sqy), cos)),
                 RSub(RMul(RMul(uy, uz), one_m_cos), RMul(ux, sin))>>,
               <<RSub(RMul(RMul(ux, uz), one_m_cos), RMul(uy, sin)),
                 RAdd(RMul(RMul(uy, uz), one_m_cos), RMul(ux, sin)),
                 RAdd(sqz, RMul(RSub(One, sqz), cos))>>>>

\* the quarter-turn and the ALPHA coefficients of a vector of angles
QPart(v) == <<v[1][1], v[2][1], v[3][1]>>

APart(v) == <<v[1][2], v[2][2], v[3][2]>>

\* the candidates for |v|, v = u * angle with u a unit vector of fractions
NormAngles(v) ==
    LET nq == Norm(QPart(v))
        na == Norm(APart(v))
    IN  {N \in {<<nq, na>>, <<nq, RNeg(na)>>, <<RNeg(nq), na>>, <<RNeg(nq), RNeg(na)>>} :
            /\ RLe(Zero, AValue(N))
            /\ \A i \in 1..3 : RMul(v[i][1], N[2]) = RMul(v[i][2], N[1])}

RepNew3(v) ==
    /\ HasNorm(QPart(v)) /\ HasNorm(APart(v))
    /\ NormAngles(v) # {}
    /\ AIsWhole(CHOOSE N \in NormAngles(v) : TRUE)

\* Unit::new_and_get: <<v / |v|, |v|>>
Unit_new_and_get(v) ==
    LET N == CHOOSE N \in NormAngles(v) : TRUE
    IN  <<IF N[1] # Zero THEN VDiv(QPart(v), N[1]) ELSE VDiv(APart(v), N[2]), N>>

\* RotationBase<N, U3, S>::new
new3(axisangle) ==
    LET ua == Unit_new_and_get(axisangle)
    IN  from_axis_angle(ua[1], ua[2])

\* RotationBase<N, U3, S>::from_scaled_axis
from_scaled_axis3(axisangle) == new3(axisangle)

\* Faulty variant of from_euler_angles: the entry (2, 0) is sp where the
\* source has -sp.
from_euler_angles_SignSlip(roll, pitch, yaw) ==
    LET sr == sin_cos(roll)[1]
        cr == sin_cos(roll)[2]
        sp == sin_cos(pitch)[1]
        cp == sin_cos(pitch)[2]
        sy == sin_cos(yaw)[1]
        cy == sin_cos(yaw)[2]
    IN  <<<<RMul(cy, cp),
            RSub(RMul(RMul(cy, sp), sr), RMul(sy, cr)),
            RAdd(RMul(RMul(cy, sp), cr), RMul(sy, sr))>>,
          <<RMul(sy, cp),
            RAdd(RMul(RMul(sy, sp), sr), RMul(cy, cr)),
            RSub(RMul(RMul(sy, sp), cr), RMul(cy, sr))>>,
          <<sp, RMul(cp, sr), RMul(cp, cr)>>>>

\* RotationBase<N, U3, S>::from_euler_angles
from_euler_angles(roll, pitch, yaw) ==
    LET sr == sin_cos(roll)[1]
        cr == sin_cos(roll)[2]
        sp == sin_cos(pitch)[1]
        cp == sin_cos(pitch)[2]
        sy == sin_cos(yaw)[1]
        cy == sin_cos(yaw)[2]
    IN  <<<<RMul(cy, cp),
            RSub(RMul(RMul(cy, sp), sr), RMul(sy, cr)),
            RAdd(RMul(RMul(cy, sp), cr), RMul(sy, sr))>>,
          <<RMul(sy, cp),
            RAdd(RMul(RMul(sy, sp), sr), RMul(cy, cr)),
            RSub(RMul(RMul(sy, sp), cr), RMul(cy, sr))>>,
          <<RNeg(sp), RMul(cp, sr), RMul(cp, cr)>>>>

RepObserverFrame(dir, up) ==
    /\ HasNorm(dir)
    /\ HasNorm(Cross(up, Normalize(dir)))
    /\ HasNorm(Cross(Normalize(dir), Normalize(Cross(up, Normalize(dir)))))

\* RotationBase<N, U3, S>::new_observer_frame
new_observer_frame(dir, up) ==
    LET zaxis == Normalize(dir)
        xaxis == Normalize(Cross(up, zaxis))
        yaxis == Normalize(Cross(zaxis, xaxis))
    IN  <<<<xaxis[1], yaxis[1], zaxis[1]>>,
          <<xaxis[2], yaxis[2], zaxis[2]>>,
          <<xaxis[3], yaxis[3], zaxis[3]>>>>

\* Faulty variant of look_at_rh: the view direction is not negated.
look_at_rh_NotNegated(dir, up) == inverse(new_observer_frame(dir, up))

\* RotationBase<N, U3, S>::look_at_rh
look_at_rh(dir, up) == inverse(new_observer_frame(VNeg(dir), up))

\* RotationBase<N, U3, S>::look_at_lh
look_at_lh(dir, up) == inverse(new_observer_frame(dir, up))

RepBetween(a, b, n) ==
    /\ HasNorm(a) /\ HasNorm(b)
    /\ (try_normalize(a) # None /\ try_normalize(b) # None) =>
         LET na == try_normalize(a)[1]
             nb == try_normalize(b)[1]
         IN  /\ HasNorm(Cross(na, nb))
             /\ Unit_try_new(Cross(na, nb)) # None =>
                  /\ HasAcos(Dot(na, nb))
                  /\ AIsWhole(AScale(acos(Dot(na, nb)), n))

\* Faulty variant of scaled_rotation_between: the sign test on the dot product
\* is taken the wrong way round.
scaled_rotation_between_FlippedTest(a, b, n) ==
    LET ta == try_normalize(a)
        tb == try_normalize(b)
    IN  IF ta # None /\ tb # None
        THEN LET na   == ta[1]
                 nb   == tb[1]
                 c    == Cross(na, nb)
                 axis == Unit_try_new(c)
             IN  IF axis # None
                 THEN Some(from_axis_angle(axis[1], AScale(acos(Dot(na, nb)), n)))
                 ELSE IF RLt(Zero, Dot(na, nb))
                 THEN None
                 ELSE Some(Identity(3))
        ELSE Some(Identity(3))

\* RotationBase<N, U3, S>::scaled_rotation_between
scaled_rotation_between(a, b, n) ==
    LET ta == try_normalize(a)
        tb == try_normalize(b)
    IN  IF ta # None /\ tb # None
        THEN LET na   == ta[1]
                 nb   == tb[1]
                 c    == Cross(na, nb)
                 axis == Unit_try_new(c)
             IN  IF axis # None
                 THEN Some(from_axis_angle(axis[1], AScale(acos(Dot(na, nb)), n)))
                 ELSE IF RLt(Dot(na, nb), Zero)
                 THEN None
                 ELSE Some(Identity(3))
        ELSE Some(Identity(3))

\* RotationBase<N, U3, S>::rotation_between
rotation_between(a, b) == scaled_rotation_between(a, b, One)

\* the argument of acos in angle()
CosAngle3(R) == RDiv(RSub(RAdd(RAdd(R[1][1], R[2][2]), R[3][3]), One), Whole(2))

RepAngle3(R) == HasAcos(CosAngle3(R))

\* RotationBase<N, U3, S>::angle
angle3(self) == acos(CosAngle3(self))

\* the skew-symmetric part of the matrix, as a vector
SkewPart(R) ==
    <<RSub(R[3][2], R[2][3]), RSub(R[1][3], R[3][1]), RSub(R[2][1], R[1][2])>>

RepAxis3(R) == HasNorm(SkewPart(R))

\* Faulty variant of axis: the skew-symmetric part is taken from the
\* transposed matrix, which points the axis the other way.
axis3_Transposed(self) == Unit_try_new(VNeg(SkewPart(self)))

\* RotationBase<N, U3, S>::axis
axis3(self) == Unit_try_new(SkewPart(self))

RepScaledAxis3(R) == RepAxis3(R) /\ (axis3(R) # None => RepAngle3(R))

\* RotationBase<N, U3, S>::scaled_axis: a vector of angles
scaled_axis3(self) ==
    LET axis == axis3(self)
    IN  IF axis # None
        THEN <<AScale(angle3(self), axis[1][1]), AScale(angle3(self), axis[1][2]),
               AScale(angle3(self), axis[1][3])>>
        ELSE <<AZero, AZero, AZero>>

\* Faulty variant of rotation_to: the factors are multiplied in the wrong order.
rotation_to3_WrongOrder(self, other) == MMul(inverse(self), other)

\* RotationBase<N, U3, S>::rotation_to
rotation_to3(self, other) == MMul(other, inverse(self))

\* RotationBase<N, U3, S>::angle_to
angle_to3(self, other) == angle3(rotation_to3(self, other))

RepPowf3(R, n) ==
    /\ RepAxis3(R)
    /\ axis3(R) # None => (RepAngle3(R) /\ AIsWhole(AScale(angle3(R), n)))

\* RotationBase<N, U3, S>::powf
powf3(self, n) ==
    LET axis == axis3(self)
    IN  IF axis # None
        THEN from_axis_angle(axis[1], AScale(angle3(self), n))
        ELSE IF RLt(self[1][1], Zero)
        THEN from_diagonal_element(3, RNeg(One))
        ELSE Identity(3)

(***************************************************************************)
(* The inputs the operations are applied to.                               *)
(***************************************************************************)
Angles == {Ang(q, a) : q \in -MaxTurns..MaxTurns, a \in -MaxAlpha..MaxAlpha}

EulerAngles ==
    {Ang(0, 0), Ang(1, 0), Ang(2, 0), Ang(-1, 0), Ang(0, 1), Ang(0, -1), Ang(1, 1)}

Scalars ==
    {Whole(-2), Whole(-1), Zero, <<1, 2>>, One, Whole(2), Whole(3)}

Vec(x, y, z) == <<Whole(x), Whole(y), Whole(z)>>

XAxis == Vec(1, 0, 0)

YAxis == Vec(0, 1, 0)

ZAxis == Vec(0, 0, 1)

UnitAxes ==
    {XAxis, YAxis, ZAxis, Vec(0, 0, -1), <<<<2, 3>>, <<-1, 3>>, <<2, 3>>>>}

Vectors ==
    {Vec(0, 0, 0), Vec(1, 0, 0), Vec(-2, 0, 0), Vec(0, 1, 0), Vec(0, 0, 1),
     Vec(0, 0, -1), Vec(3, 4, 0), Vec(-3, -4, 0), Vec(4, 3, 0), Vec(0, 1, 1)}

\* axis * angle, a vector of angles
AngleVec(axis, th) == <<AScale(th, axis[1]), AScale(th, axis[2]), AScale(th, axis[3])>>

ScaledAxes ==
    {AngleVec(u, th) : u \in UnitAxes \cup {Vec(0, 0, 0), Vec(0, -2, 0)}, th \in Angles}

Others2 == {new2(Ang(1, 0)), new2(Ang(2, 1)), new2(Ang(-1, -1))}

Others3 ==
    {from_axis_angle(ZAxis, Ang(1, 0)), from_axis_angle(XAxis, Ang(0, 1)),
     from_axis_angle(YAxis, Ang(2, 0))}

\* sin_cos of th is computed exactly and within the integer range
RepSinCos(th) == AIsWhole(th) /\ Abs(th[2][1]) <= GridAlpha

(***************************************************************************)
(* State: the rotation a caller holds and the last call made.  Rotations   *)
(* are immutable values: a call on cur returns a new value and leaves cur  *)
(* alone; after powf the caller goes on with the result, which is how      *)
(* R.powf(a).powf(b) comes about.                                          *)
(***************************************************************************)
VARIABLES
    cur,    \* the rotation held, None before a constructor ran
    chain,  \* the <<receiver, exponent>> of the last (at most two) calls,
            \* when they were powf calls one on the result of the other
    op,     \* the name of the last call, "none" before any
    self,   \* its receiver (None for a constructor)
    args,   \* its arguments
    out     \* its result

vars == <<cur, chain, op, self, args, out>>

Init ==
    /\ cur = None
    /\ chain = <<>>
    /\ op = "none"
    /\ self = None
    /\ args = <<>>
    /\ out = None

\* a constructor call returning the rotation r
Construct(name, a, r) ==
    /\ cur' = r
    /\ chain' = <<>>
    /\ op' = name
    /\ self' = None
    /\ args' = a
    /\ out' = r

\* a call on cur that returns the value v
Query(name, a, v) ==
    /\ op' = name
    /\ self' = cur
    /\ args' = a
    /\ out' = v
    /\ chain' = <<>>
    /\ UNCHANGED cur

\* a powf call on cur, whose result r the caller goes on with
Derive(name, a, r) ==
    /\ op' = name
    /\ self' = cur
    /\ args' = a
    /\ out' = r
    /\ cur' = r
    /\ chain' = IF chain = <<>> THEN <<<<cur, a[1]>>>>
                ELSE <<chain[Len(chain)], <<cur, a[1]>>>>

Is2D == cur # None /\ Len(cur) = 2

Is3D == cur # None /\ Len(cur) = 3

New2 ==
    /\ op = "none"
    /\ \E angle \in Angles :
           /\ RepSinCos(angle)
           /\ Construct("new2", <<angle>>, new2(angle))

FromScaledAxis2 ==
    /\ op = "none"
    /\ \E angle \in Angles :
           /\ RepSinCos(angle)
           /\ Construct("from_scaled_axis2", <<<<angle>>>>, from_scaled_axis2(<<angle>>))

Angle2 ==
    /\ Is2D /\ RepAngle2(cur)
    /\ Query("angle2", <<>>, angle2(cur))

ScaledAxis2 ==
    /\ Is2D /\ RepAngle2(cur)
    /\ Query("scaled_axis2", <<>>, scaled_axis2(cur))

RotationTo2 ==
    /\ Is2D
    /\ \E other \in Others2 \cup {cur} :
           Query("rotation_to2", <<other>>, rotation_to2(cur, other))

AngleTo2 ==
    /\ Is2D
    /\ \E other \in Others2 \cup {cur} :
           /\ RepAngle2(rotation_to2(cur, other))
           /\ Query("angle_to2", <<other>>, angle_to2(cur, other))

Powf2 ==
    /\ Is2D
    /\ \E n \in Scalars :
           /\ RepPowf2(cur, n) /\ RepSinCos(AScale(angle2(cur), n))
           /\ Derive("powf2", <<n>>, powf2(cur, n))

FromAxisAngle ==
    /\ op = "none"
    /\ \E axis \in UnitAxes, angle \in Angles :
           /\ RepSinCos(angle)
           /\ Construct("from_axis_angle", <<axis, angle>>, from_axis_angle(axis, angle))

New3 ==
    /\ op = "none"
    /\ \E v \in ScaledAxes :
           /\ RepNew3(v) /\ RepSinCos(Unit_new_and_get(v)[2])
           /\ Construct("new3", <<v>>, new3(v))

FromScaledAxis3 ==
    /\ op = "none"
    /\ \E v \in ScaledAxes :
           /\ RepNew3(v) /\ RepSinCos(Unit_new_and_get(v)[2])
           /\ Construct("from_scaled_axis3", <<v>>, from_scaled_axis3(v))

FromEulerAngles ==
    /\ op = "none"
    /\ \E roll \in EulerAngles, pitch \in EulerAngles, yaw \in EulerAngles :
           Construct("from_euler_angles", <<roll, pitch, yaw>>,
                     from_euler_angles(roll, pitch, yaw))

NewObserverFrame ==
    /\ op = "none"
    /\ \E dir \in Vectors, up \in Vectors :
           /\ RepObserverFrame(dir, up)
           /\ Construct("new_observer_frame", <<dir, up>>, new_observer_frame(dir, up))

LookAtRh ==
    /\ op = "none"
    /\ \E dir \in Vectors, up \in Vectors :
           /\ RepObserverFrame(VNeg(dir), up)
           /\ Construct("look_at_rh", <<dir, up>>, look_at_rh(dir, up))

LookAtLh ==
    /\ op = "none"
    /\ \E dir \in Vectors, up \in Vectors :
           /\ RepObserverFrame(dir, up)
           /\ Construct("look_at_lh", <<dir, up>>, look_at_lh(dir, up))

\* the Option result of rotation_between: the caller holds the rotation, if any
ConstructOption(name, a, r) ==
    /\ cur' = IF r = None THEN None ELSE r[1]
    /\ chain' = <<>>
    /\ op' = name
    /\ self' = None
    /\ args' = a
    /\ out' = r

RepBetweenCall(a, b, n) ==
    /\ RepBetween(a, b, n)
    /\ (try_normalize(a) # None /\ try_normalize(b) # None
          /\ Unit_try_new(Cross(try_normalize(a)[1], try_normalize(b)[1])) # None) =>
         RepSinCos(AScale(acos(Dot(try_normalize(a)[1], try_normalize(b)[1])), n))

RotationBetween ==
    /\ op = "none"
    /\ \E a \in Vectors, b \in Vectors :
           /\ RepBetweenCall(a, b, One)
           /\ ConstructOption("rotation_between", <<a, b>>, rotation_between(a, b))

ScaledRotationBetween ==
    /\ op = "none"
    /\ \E a \in Vectors, b \in Vectors, n \in Scalars :
           /\ RepBetweenCall(a, b, n)
           /\ ConstructOption("scaled_rotation_between", <<a, b, n>>,
                              scaled_rotation_between(a, b, n))

Angle3 ==
    /\ Is3D /\ RepAngle3(cur)
    /\ Query("angle3", <<>>, angle3(cur))

Axis3 ==
    /\ Is3D /\ RepAxis3(cur)
    /\ Query("axis3", <<>>, axis3(cur))

ScaledAxis3 ==
    /\ Is3D /\ RepScaledAxis3(cur)
    /\ Query("scaled_axis3", <<>>, scaled_axis3(cur))

RotationTo3 ==
    /\ Is3D
    /\ \E other \in Others3 \cup {cur} :
           Query("rotation_to3", <<other>>, rotation_to3(cur, other))

AngleTo3 ==
    /\ Is3D
    /\ \E other \in Others3 \cup {cur} :
           /\ RepAngle3(rotation_to3(cur, other))
           /\ Query("angle_to3", <<other>>, angle_to3(cur, other))

Powf3 ==
    /\ Is3D
    /\ \E n \in Scalars :
           /\ RepPowf3(cur, n)
           /\ axis3(cur) # None => RepSinCos(AScale(angle3(cur), n))
           /\ Derive("powf3", <<n>>, powf3(cur, n))

\* the caller lets go of the rotation
Drop ==
    /\ op # "none"
    /\ cur' = None
    /\ chain' = <<>>
    /\ op' = "none"
    /\ self' = None
    /\ args' = <<>>
    /\ out' = None

Next ==
    \/ New2 \/ FromScaledAxis2 \/ Angle2 \/ ScaledAxis2 \/ RotationTo2 \/ AngleTo2
    \/ Powf2
    \/ FromAxisAngle \/ New3 \/ FromScaledAxis3 \/ FromEulerAngles
    \/ NewObserverFrame \/ LookAtRh \/ LookAtLh
    \/ RotationBetween \/ ScaledRotationBetween
    \/ Angle3 \/ Axis3 \/ ScaledAxis3 \/ RotationTo3 \/ AngleTo3 \/ Powf3
    \/ Drop

Spec == Init /\ [][Next]_vars

(***************************************************************************)
(* Properties.                                                             *)
(***************************************************************************)
ZeroVec == Vec(0, 0, 0)

\* up is not collinear to dir (which also makes both non-zero)
NotCollinear(dir, up) == Cross(up, dir) # ZeroVec

\* C1: 3D scaled_rotation_between(a, b, n) is absent exactly when a and b are
\* non-zero, the cross product of their normalizations is not above epsilon and
\* their dot product is negative; it is the identity when a or b is zero or
\* when they are parallel, for every n; rotation_between(a, b) is
\* scaled_rotation_between(a, b, 1).
C1_BetweenAbsentIffAntiparallel ==
    op \in {"scaled_rotation_between", "rotation_between"} =>
        LET a        == args[1]
            b        == args[2]
            nonzero  == a # ZeroVec /\ b # ZeroVec
            cross    == Cross(Normalize(a), Normalize(b))
            dot      == Dot(Normalize(a), Normalize(b))
            parallel == nonzero /\ ~AboveEpsilon(Norm(cross))
        IN  /\ out = None <=> (parallel /\ RLt(dot, Zero))
            /\ (~nonzero \/ (parallel /\ RLe(Zero, dot))) => out = Some(Identity(3))
            /\ op = "rotation_between" => out = scaled_rotation_between(a, b, One)

\* C1 witness: antiparallel vectors gave no rotation, with an exponent other than 1
C1_Witness ==
    /\ op = "scaled_rotation_between"
    /\ args[1] = Vec(3, 4, 0) /\ args[2] = Vec(-3, -4, 0) /\ args[3] = Whole(2)
    /\ out = None

\* C2: every rotation a constructor produces is orthogonal with determinant +1
\* (observer frame and look-at: for up not collinear to dir; rotation_between:
\* when a rotation is returned).
C2_ConstructorsGiveRotations ==
    /\ op \in {"new2", "from_scaled_axis2", "from_axis_angle", "new3",
               "from_scaled_axis3", "from_euler_angles"} => IsRotation(out)
    /\ (op \in {"new_observer_frame", "look_at_rh", "look_at_lh"}
          /\ NotCollinear(args[1], args[2])) => IsRotation(out)
    /\ (op \in {"rotation_between", "scaled_rotation_between"} /\ out # None)
          => IsRotation(out[1])

\* C2 witness: an observer frame for a slanted view direction
C2_Witness ==
    /\ op = "new_observer_frame"
    /\ args = <<Vec(3, 4, 0), Vec(0, 0, 1)>>
    /\ out # Identity(3) /\ IsRotation(out)

\* C3: every rotation returned by 3D powf is a valid rotation, the degenerate
\* branch (no axis, matrix[0,0] < 0) included.
C3_PowfGivesRotation ==
    (op = "powf3" /\ IsRotation(self)) => IsRotation(out)

\* C4: R.powf(n) is the rotation with the axis of R and the angle R.angle() * n,
\* for every rotation R, rotations by 0 and by pi included; so R.powf(1) = R.
C4_PowfScalesAngle ==
    (op = "powf3" /\ IsRotation(self) /\ RepAngle3(self)) =>
        /\ args[1] = One => out = self
        /\ \A u \in UnitAxes :
               (self = from_axis_angle(u, angle3(self))
                  /\ RepSinCos(AScale(angle3(self), args[1])))
               => out = from_axis_angle(u, AScale(angle3(self), args[1]))

\* C5: R1.rotation_to(R2) * R1 = R2 in 2D and 3D; R.rotation_to(R) is the
\* identity and R.angle_to(R) is 0.
C5_RotationToComposes ==
    (op \in {"rotation_to2", "rotation_to3", "angle_to2", "angle_to3"}
       /\ IsRotation(self)) =>
        /\ op \in {"rotation_to2", "rotation_to3"} =>
               /\ MMul(out, self) = args[1]
               /\ args[1] = self => out = Identity(Len(self))
        /\ (op \in {"angle_to2", "angle_to3"} /\ args[1] = self) => out = AZero

\* C5 witness: a relative rotation between two different 3D rotations
C5_Witness ==
    /\ op = "rotation_to3"
    /\ IsRotation(self) /\ self # Identity(3)
    /\ args[1] = from_axis_angle(XAxis, Ang(0, 1))
    /\ self # args[1]
    /\ out # Identity(3)

\* the last two calls were R.powf(a).powf(b), on rotations for which the law is
\* stated: any 2D rotation, a 3D rotation when R and R.powf(a) have an axis;
\* and R.powf(a * b) is computed exactly
PowfTwice ==
    /\ Len(chain) = 2 /\ op \in {"powf2", "powf3"}
    /\ IsRotation(chain[1][1])
    /\ IF op = "powf2"
       THEN /\ RepPowf2(chain[1][1], RMul(chain[1][2], chain[2][2]))
            /\ RepSinCos(AScale(angle2(chain[1][1]), RMul(chain[1][2], chain[2][2])))
       ELSE /\ axis3(chain[1][1]) # None /\ axis3(chain[2][1]) # None
            /\ RepPowf3(chain[1][1], RMul(chain[1][2], chain[2][2]))
            /\ RepSinCos(AScale(angle3(chain[1][1]), RMul(chain[1][2], chain[2][2])))

\* R.powf(a * b) for the last two calls R.powf(a).powf(b)
PowfOfProduct ==
    IF op = "powf2"
    THEN powf2(chain[1][1], RMul(chain[1][2], chain[2][2]))
    ELSE powf3(chain[1][1], RMul(chain[1][2], chain[2][2]))

\* R.angle() * a, in thousandths of a degree
FirstPowerAngle ==
    IF op = "powf2"
    THEN AValue(AScale(angle2(chain[1][1]), chain[1][2]))
    ELSE AValue(AScale(angle3(chain[1][1]), chain[1][2]))

\* C6 as stated: R.powf(a).powf(b) = R.powf(a * b) for every 2D rotation, and
\* for every 3D rotation such that R and R.powf(a) have an axis.
C6_PowerLaw == PowfTwice => out = PowfOfProduct

\* C6 amended: the law holds when R.angle() * a is itself a principal angle:
\* in (-pi, pi] in 2D, strictly between -pi and pi in 3D.
C6_PowerLawPrincipal ==
    (/\ PowfTwice
     /\ RLt(Whole(-180000), FirstPowerAngle)
     /\ IF op = "powf2" THEN RLe(FirstPowerAngle, Whole(180000))
                        ELSE RLt(FirstPowerAngle, Whole(180000)))
    => out = PowfOfProduct

\* C6 witness: a 3D rotation by ALPHA, squared, then its square root taken
C6_Witness ==
    /\ PowfTwice /\ op = "powf3"
    /\ chain[1][1] = from_axis_angle(ZAxis, Ang(0, 1))
    /\ chain[1][2] = Whole(2) /\ chain[2][2] = <<1, 2>>
    /\ out = chain[1][1]

\* C7: from_euler_angles(roll, pitch, yaw) is the product
\* from_axis_angle(z, yaw) * from_axis_angle(y, pitch) * from_axis_angle(x, roll).
C7_EulerIsComposition ==
    op = "from_euler_angles" =>
        out = MMul(from_axis_angle(ZAxis, args[3]),
                   MMul(from_axis_angle(YAxis, args[2]), from_axis_angle(XAxis, args[1])))

\* C7 witness: three angles that are no multiples of a quarter turn
C7_Witness ==
    /\ op = "from_euler_angles"
    /\ args = <<Ang(0, 1), Ang(1, 1), Ang(0, -1)>>
    /\ out # Identity(3)

\* C8: axis() is absent exactly when the rotation angle is 0 or pi (the
\* skew-symmetric part has magnitude not above epsilon); scaled_axis() is then
\* the zero vector, and otherwise the unit axis multiplied by angle(); an axis
\* that is present is the unit axis of the rotation (with angle() it gives the
\* rotation back).
C8_AxisAbsentAtZeroAndPi ==
    (op \in {"axis3", "scaled_axis3"} /\ IsRotation(self) /\ RepAngle3(self)) =>
        LET degenerate == angle3(self) \in {AZero, Ang(2, 0)}
        IN  /\ degenerate <=> ~AboveEpsilon(Norm(SkewPart(self)))
            /\ op = "axis3" =>
                   /\ out = None <=> degenerate
                   /\ out # None =>
                          /\ Norm(out[1]) = One
                          /\ from_axis_angle(out[1], angle3(self)) = self
            /\ op = "scaled_axis3" =>
                   IF degenerate
                   THEN out = <<AZero, AZero, AZero>>
                   ELSE out = AngleVec(axis3(self)[1], angle3(self))

\* C8 witness: a scaled axis that is not zero, pointing along -z
C8_Witness ==
    /\ op = "scaled_axis3" /\ IsRotation(self)
    /\ self = from_axis_angle(ZAxis, Ang(3, 1))
    /\ out = <<AZero, AZero, Ang(-1, 1)>>

\* C9: for up not collinear to dir, R = new_observer_frame(dir, up) maps the
\* view direction to the positive z axis: R * normalize(dir) = (0, 0, 1).
C9_ObserverFrameMapsDirToZ ==
    (op = "new_observer_frame" /\ NotCollinear(args[1], args[2])) =>
        MVec(out, Normalize(args[1])) = ZAxis

\* C10: for up not collinear to dir, look_at_rh(dir, up) is the inverse of
\* new_observer_frame(-dir, up) and sends normalize(dir) to (0, 0, -1);
\* look_at_lh(dir, up) is the inverse of new_observer_frame(dir, up) and sends
\* normalize(dir) to (0, 0, 1); look_at_rh((0,0,-1), (0,1,0)) is the identity.
C10_LookAtInvertsObserverFrame ==
    (op \in {"look_at_rh", "look_at_lh"} /\ NotCollinear(args[1], args[2])) =>
        LET dir == args[1]
            up  == args[2]
        IN  /\ op = "look_at_rh" =>
                   /\ MMul(out, new_observer_frame(VNeg(dir), up)) = Identity(3)
                   /\ MVec(out, Normalize(dir)) = Vec(0, 0, -1)
                   /\ (dir = Vec(0, 0, -1) /\ up = Vec(0, 1, 0)) => out = Identity(3)
            /\ op = "look_at_lh" =>
                   /\ MMul(out, new_observer_frame(dir, up)) = Identity(3)
                   /\ MVec(out, Normalize(dir)) = ZAxis

\* C10 witness: a right-handed look-at along a slanted direction
C10_Witness ==
    /\ op = "look_at_rh"
    /\ args = <<Vec(3, 4, 0), Vec(0, 0, 1)>>
    /\ out # Identity(3)

====
